---- MODULE Spec2Model ----
(***************************************************************************)
(* A model of part2_modeling.ipynb: the rolling-window feature extractor   *)
(* extract_time_series_features and the ARIMA wrapper build_arima_model.   *)
(*                                                                         *)
(* Floating-point values are modelled as exact rationals [num, den] or     *)
(* NaN.  Two statistics are irrational (they contain a square root) and    *)
(* are stored through a rational image that is defined exactly when the    *)
(* statistic is: the standard deviation by its square (the variance), the  *)
(* skewness by its signed square.                                          *)
(***************************************************************************)
EXTENDS Integers, Sequences, FiniteSets, TLC

VARIABLES
    fn,            \* which function of the notebook is being called
    pc,            \* position inside the call
    data,          \* extract_time_series_features: the input table
    window_size,   \* extract_time_series_features: window width in seconds
    ci,            \* position of the "for column in data.columns" loop
    features,      \* the features dict: keys in insertion order, and columns
    features_df,   \* the DataFrame built from features, then trimmed
    exc,           \* the library call, if any, that raises inside compute_autocorr
    series,        \* build_arima_model: the input series (its index)
    fs,            \* the file system under output_dir
    failAt,        \* build_arima_model: the library call, if any, that raises
    model_fit,     \* the fitted model, "none" before the fit
    forecast,      \* forecast index, forecast means, confidence rows
    log,           \* the side effects of the call, in order
    result         \* what the call returned, "none" before it returns

vars == <<fn, pc, data, window_size, ci, features, features_df, exc,
          series, fs, failAt, model_fit, forecast, log, result>>

extractVars == <<data, window_size, ci, features, features_df, exc>>
arimaVars == <<series, fs, failAt, model_fit, forecast, log>>

(***************************************************************************)
(* Bounds of the model.                                                    *)
(***************************************************************************)
MaxRows == 5          \* rows of the input table
MaxCells == 8         \* rows times numeric columns of the input table
MaxSeriesLen == 3     \* observations of the series given to build_arima_model
MaxExcRows == 3       \* rows of the tables on which a library call may raise

Values == {0, 1}                    \* signal samples
Gaps == {0, 1, 3}                   \* seconds between consecutive rows
WindowSizes == {3, 4}               \* window_size arguments
Layouts == {<<>>, <<"str">>, <<"num">>, <<"num", "str">>,
            <<"str", "num">>, <<"num", "num">>}   \* dtypes of the columns
ColumnNames == <<"hr", "temp">>

(***************************************************************************)
(* Cells: a float is NaN or an exact rational with a positive denominator. *)
(***************************************************************************)
NaN == [nan |-> TRUE, num |-> 0, den |-> 1]
Num(a, b) == [nan |-> FALSE, num |-> a, den |-> b]
IsNaN(c) == c.nan

\* a - b on floats: NaN if either operand is NaN
Sub(a, b) ==
    IF a.nan \/ b.nan THEN NaN
    ELSE Num(a.num * b.den - b.num * a.den, a.den * b.den)

RatEq(a, b) == ~a.nan /\ ~b.nan /\ a.num * b.den = b.num * a.den
RatLe(a, b) == ~a.nan /\ ~b.nan /\ a.num * b.den <= b.num * a.den

(***************************************************************************)
(* Sums over a window x (a non-empty sequence of samples).                 *)
(***************************************************************************)
RECURSIVE SumSeq(_)
SumSeq(x) == IF x = <<>> THEN 0 ELSE Head(x) + SumSeq(Tail(x))

\* n*x[t] - sum(x): n times the demeaned sample, an integer
Dev(x, t) == Len(x) * x[t] - SumSeq(x)

RECURSIVE SumPow(_, _, _)
\* sum over t <= k of Dev(x, t)^p
SumPow(x, p, k) ==
    IF k = 0 THEN 0
    ELSE LET d == Dev(x, k)
             v == IF p = 2 THEN d * d ELSE IF p = 3 THEN d * d * d ELSE d * d * d * d
         IN  v + SumPow(x, p, k - 1)

RECURSIVE SumLag1(_, _)
\* sum over t < k of Dev(x, t) * Dev(x, t + 1)
SumLag1(x, k) ==
    IF k <= 1 THEN 0 ELSE Dev(x, k - 1) * Dev(x, k) + SumLag1(x, k - 1)

RECURSIVE MinSeq(_)
MinSeq(x) ==
    IF Len(x) = 1 THEN x[1]
    ELSE LET m == MinSeq(Tail(x)) IN IF Head(x) < m THEN Head(x) ELSE m

RECURSIVE MaxSeq(_)
MaxSeq(x) ==
    IF Len(x) = 1 THEN x[1]
    ELSE LET m == MaxSeq(Tail(x)) IN IF Head(x) > m THEN Head(x) ELSE m

RECURSIVE Insert(_, _)
Insert(v, s) ==
    IF s = <<>> THEN <<v>>
    ELSE IF v <= Head(s) THEN <<v>> \o s ELSE <<Head(s)>> \o Insert(v, Tail(s))

RECURSIVE Sorted(_)
Sorted(x) == IF x = <<>> THEN <<>> ELSE Insert(Head(x), Sorted(Tail(x)))

AllEqual(x) == \A t \in 1..Len(x) : x[t] = x[1]

(***************************************************************************)
(* The statistics of one window.                                           *)
(***************************************************************************)
\* .mean(): defined from one sample on (min_periods of a time window is 1)
WinMean(x) == Num(SumSeq(x), Len(x))

\* .std(): sample standard deviation (ddof = 1), NaN below 2 samples;
\* the cell holds its square
WinStd(x) ==
    IF Len(x) < 2 THEN NaN
    ELSE Num(SumPow(x, 2, Len(x)), Len(x) * Len(x) * (Len(x) - 1))

WinMin(x) == Num(MinSeq(x), 1)
WinMax(x) == Num(MaxSeq(x), 1)

\* .median(): the middle order statistic, or the mean of the two middle ones
WinMedian(x) ==
    LET s == Sorted(x)
        n == Len(x)
    IN  IF n % 2 = 1 THEN Num(s[(n + 1) \div 2], 1)
        ELSE Num(s[n \div 2] + s[n \div 2 + 1], 2)

\* .quantile(q4 / 4): linear interpolation between order statistics
WinQuantile(x, q4) ==
    LET s == Sorted(x)
        n == Len(x)
        pos4 == q4 * (n - 1)
        lo == pos4 \div 4 + 1
        frac4 == pos4 % 4
    IN  IF frac4 = 0 THEN Num(s[lo], 1)
        ELSE Num(4 * s[lo] + frac4 * (s[lo + 1] - s[lo]), 4)

\* pd.Series(x).skew(): NaN below 3 samples, 0 for a constant window, else
\* n*sqrt(n-1)/(n-2) * m3/m2^1.5; the cell holds sign(skew) * skew^2
WinSkew(x) ==
    LET n == Len(x)
        A == SumPow(x, 2, n)
        B == SumPow(x, 3, n)
    IN  IF n < 3 THEN NaN
        ELSE IF A = 0 THEN Num(0, 1)
        ELSE Num((IF B < 0 THEN -1 ELSE 1) * n * n * (n - 1) * B * B,
                 (n - 2) * (n - 2) * A * A * A)

\* WinKurt with the sample threshold off by one: defined from 3 samples on
WinKurt_From3(x) ==
    LET n == Len(x)
        A == SumPow(x, 2, n)
        C == SumPow(x, 4, n)
    IN  IF n < 3 THEN NaN
        ELSE IF A = 0 \/ n = 3 THEN Num(0, 1)
        ELSE Num(n * (n + 1) * (n - 1) * C - 3 * (n - 1) * (n - 1) * A * A,
                 (n - 2) * (n - 3) * A * A)

\* pd.Series(x).kurt(): NaN below 4 samples, 0 for a constant window, else
\* n(n+1)(n-1)*m4 / ((n-2)(n-3)*m2^2) - 3(n-1)^2/((n-2)(n-3))
WinKurt(x) ==
    LET n == Len(x)
        A == SumPow(x, 2, n)
        C == SumPow(x, 4, n)
    IN  IF n < 4 THEN NaN
        ELSE IF A = 0 THEN Num(0, 1)
        ELSE Num(n * (n + 1) * (n - 1) * C - 3 * (n - 1) * (n - 1) * A * A,
                 (n - 2) * (n - 3) * A * A)

\* acf(x, nlags=1, fft=False)[1]: lag-1 autocovariance over lag-0
\* autocovariance of the demeaned window
Acf1(x) == Num(SumLag1(x, Len(x)), SumPow(x, 2, Len(x)))

\* Library calls of compute_autocorr that may raise: the x[0] lookup of the
\* guard (line 98, outside the try) and acf (line 101, inside it).
ExcKinds == {"getitem", "acf"}
NoExc == [kind |-> "none", row |-> 0]

\* compute_autocorr raises: the window has 2 samples or more, so the guard
\* goes on to evaluate x[0], and that lookup raises outside the try
ComputeAutocorrRaises(x, e) == Len(x) >= 2 /\ e = "getitem"

\* compute_autocorr without the all-equal test: a constant window gets 0
compute_autocorr_NoConstantTest(x, e) ==
    IF Len(x) < 2 THEN NaN
    ELSE IF e = "acf" THEN NaN
    ELSE IF AllEqual(x) THEN Num(0, 1)
    ELSE Acf1(x)

\* the value compute_autocorr returns when it returns; e names the library
\* call that raises on this window, "none" if none does
compute_autocorr(x, e) ==
    IF Len(x) < 2 \/ AllEqual(x) THEN NaN
    ELSE IF e = "acf" THEN NaN
    ELSE Acf1(x)

(***************************************************************************)
(* Time-based rolling windows: signal.rolling(f'{window_size}s').          *)
(***************************************************************************)
\* WindowRows with a window of w rows instead of w seconds
WindowRows_ByCount(index, w, i) == {j \in 1..i : j > i - w}

\* the rows of the window ending at row i: the rows up to and including i
\* whose timestamp lies in (index[i] - w, index[i]]
WindowRows(index, w, i) == {j \in 1..i : index[j] > index[i] - w}

\* the samples of that window, in row order (the index is sorted, so the
\* window is the contiguous block of rows ending at row i)
Window(index, w, vals, i) ==
    LET rows == WindowRows(index, w, i)
        first == CHOOSE j \in rows : \A k \in rows : j <= k
    IN  SubSeq(vals, first, i)

(***************************************************************************)
(* The twelve derived columns of one numeric column.                       *)
(***************************************************************************)
Stats == <<"mean", "std", "min", "max", "range", "median",
           "q25", "q75", "iqr", "skew", "kurt", "autocorr">>

\* FeatureName without the separator
FeatureName_NoSeparator(column, stat) == column \o stat

FeatureName(column, stat) == column \o "_" \o stat

\* the library call that raises on the window of row i
ExcAt(ex, i) == IF ex.row = i THEN ex.kind ELSE "none"

\* one cell of a rolling statistic, from the window x of its row
RollingCell(stat, x, e) ==
    CASE stat = "mean" -> WinMean(x)
      [] stat = "std" -> WinStd(x)
      [] stat = "min" -> WinMin(x)
      [] stat = "max" -> WinMax(x)
      [] stat = "median" -> WinMedian(x)
      [] stat = "q25" -> WinQuantile(x, 1)
      [] stat = "q75" -> WinQuantile(x, 3)
      [] stat = "skew" -> WinSkew(x)
      [] stat = "kurt" -> WinKurt(x)
      [] stat = "autocorr" -> compute_autocorr(x, e)

Rolling(stat, index, w, vals, ex) ==
    [i \in 1..Len(vals) |->
        RollingCell(stat, Window(index, w, vals, i), ExcAt(ex, i))]

\* SeriesSub with its operands swapped
SeriesSub_Swapped(a, b) == [i \in 1..Len(a) |-> Sub(b[i], a[i])]

\* rolling_max - rolling_min and rolling_q75 - rolling_q25, row by row
SeriesSub(a, b) == [i \in 1..Len(a) |-> Sub(a[i], b[i])]

\* one derived column of a numeric column
DerivedColumn(stat, index, w, vals, ex) ==
    CASE stat = "range" ->
            SeriesSub(Rolling("max", index, w, vals, ex),
                      Rolling("min", index, w, vals, ex))
      [] stat = "iqr" ->
            SeriesSub(Rolling("q75", index, w, vals, ex),
                      Rolling("q25", index, w, vals, ex))
      [] OTHER -> Rolling(stat, index, w, vals, ex)

\* the entries added to features for one numeric column
ColumnFeatures(column, index, w, vals, ex) ==
    [name \in {FeatureName(column, Stats[k]) : k \in 1..Len(Stats)} |->
        LET k == CHOOSE k \in 1..Len(Stats) : FeatureName(column, Stats[k]) = name
        IN  DerivedColumn(Stats[k], index, w, vals, ex)]

\* rolling(...).apply(compute_autocorr) raises on some window of the column
AutocorrRaises(index, w, vals, ex) ==
    \E i \in 1..Len(vals) :
        ComputeAutocorrRaises(Window(index, w, vals, i), ExcAt(ex, i))

(***************************************************************************)
(* The input tables.                                                       *)
(***************************************************************************)
RECURSIVE Cumulative(_, _)
\* the timestamps of n rows whose consecutive gaps are d[1..n-1]
Cumulative(d, n) ==
    IF n = 0 THEN <<>>
    ELSE IF n = 1 THEN <<0>>
    ELSE LET prev == Cumulative(d, n - 1)
         IN  Append(prev, prev[n - 1] + d[n - 1])

\* time-ordered indexes of n rows: one second apart, except at most one gap
Indexes(n) ==
    {Cumulative(d, n) :
        d \in {g \in [1..(n - 1) -> Gaps] :
                 Cardinality({k \in 1..(n - 1) : g[k] /= 1}) <= 1}}

NumericCount(layout) == Cardinality({k \in 1..Len(layout) : layout[k] = "num"})

\* the columns of a table of n rows with the given dtypes
ColumnsOf(layout, n) ==
    {[k \in 1..Len(layout) |->
        [name |-> ColumnNames[k], numeric |-> layout[k] = "num",
         values |-> IF layout[k] = "num" THEN v[k] ELSE [i \in 1..n |-> "s"]]] :
        v \in [1..Len(layout) -> [1..n -> Values]]}

Tables ==
    UNION {
        {[index |-> ix, columns |-> cols] :
            ix \in Indexes(n), cols \in ColumnsOf(layout, n)} :
        <<n, layout>> \in {nl \in (0..MaxRows) \X Layouts :
                              nl[1] * NumericCount(nl[2]) <= MaxCells}}

NRows(d) == Len(d.index)

(***************************************************************************)
(* extract_time_series_features(data, window_size)                         *)
(***************************************************************************)
NoFeatures == [names |-> <<>>, cols |-> <<>>]
NoFrame == [index |-> <<>>, names |-> <<>>, cols |-> <<>>]

\* the keys one numeric column adds, in the order of lines 110-121
FeatureNames(column) == [k \in 1..Len(Stats) |-> FeatureName(column, Stats[k])]

RECURSIVE SelectRows(_, _, _)
\* the entries of seq at the positions in keep that are <= n, in order
SelectRows(seq, keep, n) ==
    IF n = 0 THEN <<>>
    ELSE IF n \in keep THEN Append(SelectRows(seq, keep, n - 1), seq[n])
    ELSE SelectRows(seq, keep, n - 1)

\* RowsWithoutNaN looking at the columns of the first signal only
RowsWithoutNaN_FirstSignal(df) ==
    {i \in 1..Len(df.index) :
        \A k \in 1..Len(df.names) : k <= Len(Stats) => ~IsNaN(df.cols[df.names[k]][i])}

\* the rows DataFrame.dropna() keeps: those without a NaN in any column
RowsWithoutNaN(df) ==
    {i \in 1..Len(df.index) :
        \A k \in 1..Len(df.names) : ~IsNaN(df.cols[df.names[k]][i])}

\* features_df.dropna()
DropNa(df) ==
    LET keep == RowsWithoutNaN(df)
        n == Len(df.index)
    IN  [index |-> SelectRows(df.index, keep, n),
         names |-> df.names,
         cols |-> [c \in DOMAIN df.cols |-> SelectRows(df.cols[c], keep, n)]]

InLoop == fn = "extract" /\ pc = "loop" /\ ci <= Len(data.columns)

\* lines 68-71: a non-numeric column is skipped
SkipColumn ==
    /\ InLoop
    /\ ~data.columns[ci].numeric
    /\ ci' = ci + 1
    /\ UNCHANGED <<fn, pc, data, window_size, features, features_df, exc,
                   arimaVars, result>>

\* lines 73-121: the twelve rolling features of a numeric column
ProcessColumn ==
    /\ InLoop
    /\ data.columns[ci].numeric
    /\ ~AutocorrRaises(data.index, window_size, data.columns[ci].values, exc)
    /\ features' =
          [names |-> features.names \o FeatureNames(data.columns[ci].name),
           cols |-> ColumnFeatures(data.columns[ci].name, data.index, window_size,
                                   data.columns[ci].values, exc) @@ features.cols]
    /\ ci' = ci + 1
    /\ UNCHANGED <<fn, pc, data, window_size, features_df, exc, arimaVars, result>>

\* line 107: an exception raised by compute_autocorr outside its try leaves
\* rolling(...).apply and extract_time_series_features
ProcessColumnRaises ==
    /\ InLoop
    /\ data.columns[ci].numeric
    /\ AutocorrRaises(data.index, window_size, data.columns[ci].values, exc)
    /\ pc' = "raised"
    /\ UNCHANGED <<fn, data, window_size, ci, features, features_df, exc,
                   arimaVars, result>>

\* line 124: pd.DataFrame(features, index=data.index)
BuildFrame ==
    /\ fn = "extract" /\ pc = "loop" /\ ci > Len(data.columns)
    /\ features_df' = [index |-> data.index, names |-> features.names,
                       cols |-> features.cols]
    /\ pc' = "dropna"
    /\ UNCHANGED <<fn, data, window_size, ci, features, exc, arimaVars, result>>

\* line 127: features_df = features_df.dropna()
DropNaRows ==
    /\ fn = "extract" /\ pc = "dropna"
    /\ features_df' = DropNa(features_df)
    /\ pc' = "return"
    /\ UNCHANGED <<fn, data, window_size, ci, features, exc, arimaVars, result>>

\* line 129: return features_df
ReturnFeatures ==
    /\ fn = "extract" /\ pc = "return"
    /\ pc' = "done"
    /\ UNCHANGED <<fn, extractVars, arimaVars, result>>

(***************************************************************************)
(* build_arima_model(series, order, output_dir)                            *)
(***************************************************************************)
forecast_steps == 10

Files == {"model_fit.png", "residuals_diagnostics.png", "forecast.png"}

\* pd.date_range falls back to daily steps when freq is None
DefaultFreq == 24 * 3600

NoSeries == [kind |-> "none", index |-> <<>>, freq |-> 0]
NoFs == [parent |-> FALSE, dir |-> FALSE, files |-> [f \in Files |-> "absent"]]
NoForecast == [index |-> <<>>, values |-> <<>>, conf_int |-> <<>>]

Spacings == {1, 60}       \* seconds between observations of a time-indexed series
Starts == {0, 100}        \* first label of an integer-indexed series

\* the series: a DatetimeIndex whose freq attribute is set to its spacing or
\* is None (0), or an integer index
SeriesSet ==
    {[kind |-> "datetime", index |-> [i \in 1..n |-> (i - 1) * sp], freq |-> f] :
        <<n, sp, f>> \in {t \in (1..MaxSeriesLen) \X Spacings \X (Spacings \cup {0}) :
                             t[3] \in {0, t[2]}}}
    \cup
    {[kind |-> "numeric", index |-> [i \in 1..n |-> st + i - 1], freq |-> 0] :
        <<n, st>> \in (1..MaxSeriesLen) \X Starts}

\* the directory and the files before the call: absent or left by an earlier call
FsSet ==
    {[parent |-> p, dir |-> d, files |-> fl] :
        <<p, d, fl>> \in {t \in BOOLEAN \X BOOLEAN \X [Files -> {"absent", "old"}] :
                            /\ t[2] => t[1]
                            /\ ~t[2] => \A f \in Files : t[3][f] = "absent"}}

\* lines 222-227: the positions at which the forecast is drawn
ForecastIndex(s) ==
    IF s.kind = "datetime"
    THEN LET step == IF s.freq = 0 THEN DefaultFreq ELSE s.freq
         IN  [k \in 1..forecast_steps |-> s.index[Len(s.index)] + k * step]
    ELSE [k \in 1..forecast_steps |-> Len(s.index) + k - 1]

\* SaveFig that leaves an existing file as it is
SaveFig_KeepExisting(f) ==
    /\ fs' = [fs EXCEPT !.files[f] = IF @ = "absent" THEN "new" ELSE @]
    /\ log' = Append(log, f)

\* savefig(f'{output_dir}/{f}'): the file is created or overwritten
SaveFig(f) ==
    /\ fs' = [fs EXCEPT !.files[f] = "new"]
    /\ log' = Append(log, f)

\* line 167: os.makedirs(output_dir, exist_ok=True)
MakeDirs ==
    /\ fn = "arima" /\ pc = "makedirs" /\ failAt /= "makedirs"
    /\ fs' = [fs EXCEPT !.parent = TRUE, !.dir = TRUE]
    /\ log' = Append(log, "makedirs")
    /\ pc' = "fit"
    /\ UNCHANGED <<fn, extractVars, series, failAt, model_fit, forecast, result>>

\* line 167 raises (no permission): the error leaves the function
MakeDirsRaises ==
    /\ fn = "arima" /\ pc = "makedirs" /\ failAt = "makedirs"
    /\ pc' = "raised"
    /\ UNCHANGED <<fn, extractVars, arimaVars, result>>

\* lines 170-171: ARIMA(series, order=order).fit()
Fit ==
    /\ fn = "arima" /\ pc = "fit" /\ failAt /= "fit"
    /\ model_fit' = "fitted"
    /\ log' = Append(log, "fit")
    /\ pc' = "plot_fit"
    /\ UNCHANGED <<fn, extractVars, series, fs, failAt, forecast, result>>

\* FitRaises with the error swallowed: the call goes on to the plots
FitRaises_Swallowed ==
    /\ fn = "arima" /\ pc = "fit" /\ failAt = "fit"
    /\ pc' = "plot_fit"
    /\ UNCHANGED <<fn, extractVars, arimaVars, result>>

\* lines 170-171 raise: nothing catches the error
FitRaises ==
    /\ fn = "arima" /\ pc = "fit" /\ failAt = "fit"
    /\ pc' = "raised"
    /\ UNCHANGED <<fn, extractVars, arimaVars, result>>

\* lines 176-183: the fit plot
PlotModelFit ==
    /\ fn = "arima" /\ pc = "plot_fit"
    /\ SaveFig("model_fit.png")
    /\ pc' = "plot_resid"
    /\ UNCHANGED <<fn, extractVars, series, failAt, model_fit, forecast, result>>

\* lines 186-208: the residual diagnostics
PlotResiduals ==
    /\ fn = "arima" /\ pc = "plot_resid"
    /\ SaveFig("residuals_diagnostics.png")
    /\ pc' = "forecast"
    /\ UNCHANGED <<fn, extractVars, series, failAt, model_fit, forecast, result>>

\* lines 212-227: the forecast, its confidence interval and its index
Forecast ==
    /\ fn = "arima" /\ pc = "forecast"
    /\ forecast' = [index |-> ForecastIndex(series),
                    values |-> [k \in 1..forecast_steps |-> k],
                    conf_int |-> [k \in 1..forecast_steps |-> <<-k, k>>]]
    /\ pc' = "plot_forecast"
    /\ UNCHANGED <<fn, extractVars, series, fs, failAt, model_fit, log, result>>

\* lines 230-240: the forecast plot
PlotForecast ==
    /\ fn = "arima" /\ pc = "plot_forecast"
    /\ SaveFig("forecast.png")
    /\ pc' = "return"
    /\ UNCHANGED <<fn, extractVars, series, failAt, model_fit, forecast, result>>

\* line 243: return model_fit
ReturnModel ==
    /\ fn = "arima" /\ pc = "return"
    /\ result' = model_fit
    /\ log' = Append(log, "return")
    /\ pc' = "done"
    /\ UNCHANGED <<fn, extractVars, series, fs, failAt, model_fit, forecast>>

(***************************************************************************)
(* Specifications.                                                         *)
(***************************************************************************)
\* a call of extract_time_series_features in which the library calls of
\* compute_autocorr named in excs may raise
InitExtract(tables, excs) ==
    /\ fn = "extract" /\ pc = "loop"
    /\ data \in tables
    /\ window_size \in WindowSizes
    /\ ci = 1
    /\ features = NoFeatures
    /\ features_df = NoFrame
    /\ exc \in excs
    /\ series = NoSeries /\ fs = NoFs /\ failAt = "none" /\ model_fit = "none"
    /\ forecast = NoForecast /\ log = <<>> /\ result = "none"

InitArima ==
    /\ fn = "arima" /\ pc = "makedirs"
    /\ series \in SeriesSet
    /\ fs \in FsSet
    /\ failAt \in {"none", "makedirs", "fit"}
    /\ model_fit = "none" /\ forecast = NoForecast /\ log = <<>> /\ result = "none"
    /\ data = [index |-> <<>>, columns |-> <<>>] /\ window_size = 0 /\ ci = 1
    /\ features = NoFeatures /\ features_df = NoFrame /\ exc = NoExc

Init == InitExtract(Tables, {NoExc}) \/ InitArima

Next ==
    \/ SkipColumn
    \/ ProcessColumn
    \/ BuildFrame
    \/ DropNaRows
    \/ ReturnFeatures
    \/ MakeDirs
    \/ MakeDirsRaises
    \/ Fit
    \/ FitRaises
    \/ PlotModelFit
    \/ PlotResiduals
    \/ Forecast
    \/ PlotForecast
    \/ ReturnModel

Spec == Init /\ [][Next]_vars

\* every window of every table may be the one on which a library call of
\* compute_autocorr raises
ExcSet == {[kind |-> k, row |-> r] : k \in ExcKinds, r \in 1..MaxExcRows}

InitExc == InitExtract({t \in Tables : NRows(t) <= MaxExcRows}, ExcSet)

NextExc ==
    \/ SkipColumn
    \/ ProcessColumn
    \/ ProcessColumnRaises
    \/ BuildFrame
    \/ DropNaRows
    \/ ReturnFeatures

SpecExc == InitExc /\ [][NextExc]_vars

(***************************************************************************)
(* Properties of extract_time_series_features.                             *)
(***************************************************************************)
Returned == fn = "extract" /\ pc = "done"

NumericColumns == {k \in 1..Len(data.columns) : data.columns[k].numeric}

\* the cell of statistic stat of column k at input row i, as computed
Cell(k, stat, i) == features.cols[data.columns[k].name \o "_" \o stat][i]

StatNames == {"mean", "std", "min", "max", "range", "median",
              "q25", "q75", "iqr", "skew", "kurt", "autocorr"}

\* input rows none of whose derived values is NaN
FullRows ==
    {i \in 1..NRows(data) :
        \A k \in NumericColumns : \A st \in StatNames : ~IsNaN(Cell(k, st, i))}

\* the output is the input rows in keep, with their timestamps and cells, in
\* the original order
OutputIsRows(keep) ==
    /\ features_df.index = SelectRows(data.index, keep, NRows(data))
    /\ \A k \in NumericColumns : \A st \in StatNames :
          features_df.cols[data.columns[k].name \o "_" \o st] =
             SelectRows(features.cols[data.columns[k].name \o "_" \o st],
                        keep, NRows(data))

\* C1: the output holds exactly the input rows that have no NaN in any derived
\* column of any numeric signal, with their timestamps, in the original order,
\* and every cell of the output is defined.
C1_KeepsExactlyFullRows ==
    Returned =>
        /\ OutputIsRows(FullRows)
        /\ \A c \in DOMAIN features_df.cols :
              \A r \in 1..Len(features_df.index) : ~IsNaN(features_df.cols[c][r])
        /\ \A c \in DOMAIN features_df.cols :
              Len(features_df.cols[c]) = Len(features_df.index)

\* a row at which every feature of one signal is defined and a feature of
\* another signal is not, and which is dropped
C1_Witness ==
    /\ Returned
    /\ \E i \in 1..NRows(data) : \E a, b \in NumericColumns :
          /\ \A st \in StatNames : ~IsNaN(Cell(a, st, i))
          /\ IsNaN(Cell(b, "autocorr", i))
          /\ i \notin FullRows
    /\ Len(features_df.index) < NRows(data)

\* the samples in the window of row i are the rows up to i, in table order,
\* whose timestamp is later than index[i] - window_size
RowsInWindow(i) ==
    {j \in 1..i : data.index[j] > data.index[i] - window_size}

ConstantOn(k, rows) ==
    \A j1, j2 \in rows : data.columns[k].values[j1] = data.columns[k].values[j2]

\* row i has too little history: fewer than 4 samples in its window
ShortHistory(i) == NumericColumns /= {} /\ Cardinality(RowsInWindow(i)) < 4

\* the leading rows with too little history
LeadingShort == {i \in 1..NRows(data) : \A j \in 1..i : ShortHistory(j)}

EvenlySpaced ==
    \A i, j \in 2..NRows(data) :
        data.index[i] - data.index[i - 1] = data.index[j] - data.index[j - 1]

NoConstantWindow ==
    \A i \in 1..NRows(data) : \A k \in NumericColumns :
        Cardinality(RowsInWindow(i)) >= 4 => ~ConstantOn(k, RowsInWindow(i))

ConstantColumns ==
    {k \in NumericColumns :
        /\ data.columns[k].name \o "_mean" \in DOMAIN features.cols
        /\ NRows(data) >= 1
        /\ ConstantOn(k, 1..NRows(data))}

\* C3: for a constant numeric column, at every row the rolling mean, min, max
\* and median equal the constant, range and iqr are zero and the lag-1
\* autocorrelation is NaN; a table with such a column yields an empty output.
C3_ConstantColumn ==
    /\ \A k \in ConstantColumns : \A i \in 1..NRows(data) :
          LET c == Num(data.columns[k].values[1], 1)
          IN  /\ RatEq(Cell(k, "mean", i), c)
              /\ RatEq(Cell(k, "min", i), c)
              /\ RatEq(Cell(k, "max", i), c)
              /\ RatEq(Cell(k, "median", i), c)
              /\ RatEq(Cell(k, "range", i), Num(0, 1))
              /\ RatEq(Cell(k, "iqr", i), Num(0, 1))
              /\ IsNaN(Cell(k, "autocorr", i))
    /\ (Returned /\ ConstantColumns /= {}) => features_df.index = <<>>

\* a table whose only signal is constant, sampled evenly, long enough for its
\* last windows to hold 4 samples: every other statistic of the last row is
\* defined and the output is empty
C3_Witness ==
    /\ Returned
    /\ Cardinality(NumericColumns) = 1
    /\ ConstantColumns = NumericColumns
    /\ EvenlySpaced
    /\ NRows(data) = MaxRows
    /\ Cardinality(RowsInWindow(NRows(data))) >= 4
    /\ \A k \in NumericColumns : \A st \in StatNames \ {"autocorr"} :
          ~IsNaN(Cell(k, st, NRows(data)))
    /\ features_df.index = <<>>

Suffixes == <<"_mean", "_std", "_min", "_max", "_range", "_median",
              "_q25", "_q75", "_iqr", "_skew", "_kurt", "_autocorr">>

\* C5: the output has, for each numeric column c, the twelve columns c_mean ..
\* c_autocorr, no other column, and so 12 columns per numeric column.
C5_TwelveColumnsPerNumeric ==
    Returned =>
        /\ {features_df.names[j] : j \in 1..Len(features_df.names)} =
              {data.columns[k].name \o Suffixes[m] :
                  k \in NumericColumns, m \in 1..12}
        /\ DOMAIN features_df.cols =
              {data.columns[k].name \o Suffixes[m] :
                  k \in NumericColumns, m \in 1..12}
        /\ Len(features_df.names) = 12 * Cardinality(NumericColumns)

\* a table with a numeric and a non-numeric column
C5_Witness ==
    /\ Returned
    /\ Cardinality(NumericColumns) = 1
    /\ Len(data.columns) = 2
    /\ Len(features_df.names) = 12
    /\ Len(features_df.index) >= 1

\* the cell of column k in output row r
Out(k, stat, r) == features_df.cols[data.columns[k].name \o "_" \o stat][r]

\* C6: in every retained row, range = max - min, iqr = q75 - q25 and
\* min <= q25 <= median <= q75 <= max, so range and iqr are not negative.
C6_RangeAndIqr ==
    Returned =>
        \A k \in NumericColumns : \A r \in 1..Len(features_df.index) :
            /\ RatEq(Out(k, "range", r), Sub(Out(k, "max", r), Out(k, "min", r)))
            /\ RatEq(Out(k, "iqr", r), Sub(Out(k, "q75", r), Out(k, "q25", r)))
            /\ RatLe(Out(k, "min", r), Out(k, "q25", r))
            /\ RatLe(Out(k, "q25", r), Out(k, "median", r))
            /\ RatLe(Out(k, "median", r), Out(k, "q75", r))
            /\ RatLe(Out(k, "q75", r), Out(k, "max", r))
            /\ RatLe(Num(0, 1), Out(k, "range", r))
            /\ RatLe(Num(0, 1), Out(k, "iqr", r))

\* a retained row whose quartiles are interpolated and differ
C6_Witness ==
    /\ Returned
    /\ \E k \in NumericColumns : \E r \in 1..Len(features_df.index) :
          /\ ~RatEq(Out(k, "iqr", r), Num(0, 1))
          /\ ~RatEq(Out(k, "iqr", r), Out(k, "range", r))
          /\ Out(k, "q25", r).den = 4

\* the window of the row at time t read as every row of the table whose
\* timestamp lies in (t - window_size, t]
RowsInTimeSpan(i) ==
    {j \in 1..NRows(data) :
        /\ data.index[j] > data.index[i] - window_size
        /\ data.index[j] <= data.index[i]}

\* C10 as stated: a row is retained if and only if, for every numeric column,
\* the rows with timestamps in (t - window_size, t] are at least 4 and not all
\* equal.
C10_RetainedIffTimeSpan ==
    Returned =>
        features_df.index =
            SelectRows(data.index,
                       {i \in 1..NRows(data) : \A k \in NumericColumns :
                           /\ Cardinality(RowsInTimeSpan(i)) >= 4
                           /\ ~ConstantOn(k, RowsInTimeSpan(i))},
                       NRows(data))

\* C10 amended: the window of a row holds the rows up to and including it, in
\* table order, with timestamps in (t - window_size, t]; a row is retained if
\* and only if, for every numeric column, that window holds at least 4 samples
\* that are not all equal.
C10_RetainedIffWindow ==
    Returned =>
        OutputIsRows({i \in 1..NRows(data) : \A k \in NumericColumns :
                         /\ Cardinality(RowsInWindow(i)) >= 4
                         /\ ~ConstantOn(k, RowsInWindow(i))})

\* one table with a row kept on 4 samples although less than window_size
\* seconds precede it, and a later row dropped on fewer than 4 samples although
\* the table spans window_size seconds before it
C10_Witness ==
    /\ Returned
    /\ NumericColumns /= {}
    /\ \E i, j \in 1..NRows(data) :
          /\ i \in FullRows
          /\ data.index[i] - data.index[1] < window_size
          /\ j \notin FullRows
          /\ data.index[j] - data.index[1] >= window_size
          /\ Cardinality(RowsInWindow(j)) < 4
    /\ Len(features_df.index) >= 1

\* C4 as stated: no failure inside the per-window autocorrelation step makes
\* extract_time_series_features fail.
C4_AutocorrNeverPropagates == fn = "extract" => pc /= "raised"

(***************************************************************************)
(* Properties of build_arima_model.                                        *)
(***************************************************************************)
\* C7: when the fit fails the call ends with the error, returns no model and
\* creates or overwrites none of the three files.
C7_FitFailureWritesNothing ==
    (fn = "arima" /\ failAt = "fit") =>
        /\ pc \in {"makedirs", "fit", "raised"}
        /\ result = "none"
        /\ model_fit = "none"
        /\ \A f \in Files : fs.files[f] /= "new"
        /\ \A j \in 1..Len(log) : log[j] = "makedirs"

\* the fit has failed after the directory was created, with a file of an
\* earlier call left as it was
C7_Witness ==
    /\ fn = "arima" /\ failAt = "fit" /\ pc = "raised"
    /\ log = <<"makedirs">>
    /\ fs.dir
    /\ fs.files["forecast.png"] = "old"
    /\ fs.files["model_fit.png"] = "absent"

\* C8: a call that returns has created the directory, fitted, written the
\* three files in order and then returned the fitted model; no file is written
\* before the fit has succeeded, and a returned model comes with all three files.
C8_OrderOfEffects ==
    fn = "arima" =>
        /\ pc = "done" =>
              /\ log = <<"makedirs", "fit", "model_fit.png",
                         "residuals_diagnostics.png", "forecast.png", "return">>
              /\ result = "fitted"
        /\ result /= "none" =>
              /\ fs.parent /\ fs.dir
              /\ \A f \in Files : fs.files[f] = "new"
        /\ (\E f \in Files : fs.files[f] = "new") => model_fit = "fitted"
        /\ model_fit = "fitted" => fs.dir

\* a call that returns after creating the directory and its parent
C8_Witness ==
    /\ fn = "arima" /\ pc = "done" /\ result = "fitted"
    /\ \A f \in Files : fs.files[f] = "new"
    /\ Len(log) = 6

\* C9 as stated: the forecast is drawn at 10 positions that follow the last
\* index value of the series, at the spacing of the series when it is
\* time-indexed and at integer steps otherwise, one per forecast value.
C9_ForecastExtendsIndex ==
    (fn = "arima" /\ pc \in {"plot_forecast", "return", "done"}) =>
        LET n == Len(series.index)
            last == series.index[n]
            step == IF series.kind = "datetime" /\ n >= 2
                    THEN series.index[n] - series.index[n - 1]
                    ELSE IF series.kind = "datetime" THEN forecast.index[1] - last
                    ELSE 1
        IN  /\ Len(forecast.index) = 10
            /\ Len(forecast.values) = 10
            /\ Len(forecast.conf_int) = 10
            /\ \A k \in 1..10 : forecast.index[k] > last
            /\ \A k \in 1..10 : forecast.index[k] = last + k * step

====
